---- MODULE Spec2Model ----
(***************************************************************************)
(* A model of peppi's streaming replay decoder (src/src/parse.rs) and of   *)
(* its UBJSON subset reader (src/src/ubjson.rs).                           *)
(*                                                                         *)
(* The byte source is read lazily: every read draws the bytes found at the *)
(* current position from a small set of candidates, and `pos` counts the   *)
(* bytes taken from the source.  A candidate shorter than the read needs   *)
(* is a source that ends there (read_exact fails with UnexpectedEof).      *)
(***************************************************************************)
EXTENDS Integers, Sequences, FiniteSets, TLC

(***************************************************************************)
(* Bounds of the model.                                                    *)
(***************************************************************************)
\* the source holds at most this many event records after the size table
MaxEvents == 4
\* event records of a run that starts in the middle of the event loop
MaxCharEvents == 3
\* the longest payload the decoders are applied to, and the records of such a run
MaxPayload == 420
MaxDecEvents == 1
\* records in a source whose parse is followed to its end
MaxLiveEvents == 2

(***************************************************************************)
(* Program constants.                                                      *)
(***************************************************************************)
ZELDA_TRANSFORM_FRAME == 43
SHEIK_TRANSFORM_FRAME == 36
PAYLOADS_EVENT_CODE == 53
NUM_PORTS == 4

\* enum Event (wire codes 0x36 .. 0x39)
GameStart == 54
FramePre == 55
FramePost == 56
GameEnd == 57
\* last_event = None
NoEvent == 0

\* mutants: GameStart is not recognized; the code 0x40 is taken for a GameEnd
Event_try_from_NoStart(code) ==
    IF code \in {55, 56, 57} THEN code ELSE 0
Event_try_from_Extra(code) ==
    IF code \in {54, 55, 56, 57} THEN code ELSE IF code = 64 THEN 57 ELSE 0
Event_try_from(code) ==
    IF code \in {GameStart, FramePre, FramePost, GameEnd} THEN code ELSE NoEvent

\* "{U\x03raw[$U#l"
RAW_PROLOGUE == <<123, 85, 3, 114, 97, 119, 91, 36, 85, 35, 108>>
\* "U\x08metadata{"
METADATA_PROLOGUE == <<85, 8, 109, 101, 116, 97, 100, 97, 116, 97, 123>>
\* "}"
CLOSING_BRACE == <<125>>

(***************************************************************************)
(* Primitive codec.                                                        *)
(***************************************************************************)
Min(a, b) == IF a < b THEN a ELSE b

Prefix(s, n) == SubSeq(s, 1, Min(n, Len(s)))

\* ReadBytesExt::read_u16::<BigEndian> of two bytes
read_u16(b) == b[1] * 256 + b[2]

\* ReadBytesExt::read_u32::<BigEndian> of four bytes (the lengths drawn here
\* stay below 2^31)
read_u32(b) == ((b[1] * 256 + b[2]) * 256 + b[3]) * 256 + b[4]

\* ReadBytesExt::read_i32::<BigEndian> of four bytes (two's complement)
read_i32(b) ==
    (((IF b[1] >= 128 THEN b[1] - 256 ELSE b[1]) * 256 + b[2]) * 256 + b[3]) * 256 + b[4]

\* the wire form of an unsigned 16-bit / 32-bit number, as a producer writes it
U16Bytes(n) == <<(n \div 256) % 256, n % 256>>
U32Bytes(n) == <<(n \div 16777216) % 256, (n \div 65536) % 256, (n \div 256) % 256, n % 256>>

\* mutant: the bytes are read but not compared
expect_bytes_NoCompare(input, expected) ==
    IF Len(input) < Len(expected)
    THEN [err |-> "TruncatedInput", consumed |-> Len(input)]
    ELSE [err |-> "", consumed |-> Len(expected)]

\* mutant: the first byte is not compared
expect_bytes_SkipFirst(input, expected) ==
    IF Len(input) < Len(expected)
    THEN [err |-> "TruncatedInput", consumed |-> Len(input)]
    ELSE IF Tail(Prefix(input, Len(expected))) = Tail(expected)
         THEN [err |-> "", consumed |-> Len(expected)]
         ELSE [err |-> "MalformedEnvelope", consumed |-> Len(expected)]

\* expect_bytes: read_exact of Len(expected) bytes, then the comparison.
\* `input` is what the source holds at the current position.
expect_bytes(input, expected) ==
    IF Len(input) < Len(expected)
    THEN [err |-> "TruncatedInput", consumed |-> Len(input)]
    ELSE IF Prefix(input, Len(expected)) = expected
         THEN [err |-> "", consumed |-> Len(expected)]
         ELSE [err |-> "MalformedEnvelope", consumed |-> Len(expected)]

(***************************************************************************)
(* payload_sizes: the Event Payloads record.                               *)
(***************************************************************************)
EmptyMap == [c \in {} |-> 0]

\* HashMap::insert
Insert(m, k, v) == [c \in DOMAIN m \cup {k} |-> IF c = k THEN v ELSE m[c]]

\* iterations of `for _ in (0 .. size - 1).step_by(3)`
NumTriples(size) == (size - 1 + 2) \div 3

\* the map after reading n triples starting at byte 3 of the record
RECURSIVE ReadTriples(_, _)
ReadTriples(input, n) ==
    IF n = 0 THEN EmptyMap
    ELSE LET at == 2 + 3 * (n - 1)
         IN Insert(ReadTriples(input, n - 1), input[at + 1],
                   read_u16(SubSeq(input, at + 2, at + 3)))

\* line 67: the first record must be the Event Payloads record
BadPayloadsCode(code) == code # PAYLOADS_EVENT_CODE

\* line 75: the size byte counts itself plus 3-byte pairs
BadPayloadsSize(size) == size % 3 # 1

\* mutant: the code byte is not counted
PayloadSizesBytes_NoCode(size) == size

\* line 85: what payload_sizes returns as the number of bytes read
PayloadSizesBytes(size) == 1 + size

PsErr(kind, consumed) ==
    [err |-> kind, consumed |-> consumed, bytes |-> 0, sizes |-> EmptyMap]

payload_sizes(input) ==
    IF Len(input) < 1 THEN PsErr("TruncatedInput", 0)
    ELSE IF BadPayloadsCode(input[1]) THEN PsErr("MalformedEnvelope", 1)
    ELSE IF Len(input) < 2 THEN PsErr("TruncatedInput", 1)
    ELSE IF BadPayloadsSize(input[2]) THEN PsErr("MalformedEnvelope", 2)
    ELSE LET size == input[2]
             n == NumTriples(size)
         IN IF Len(input) < 2 + 3 * n
            THEN PsErr("TruncatedInput", Len(input))
            ELSE [err |-> "", consumed |-> 2 + 3 * n,
                  bytes |-> PayloadSizesBytes(size),
                  sizes |-> ReadTriples(input, n)]

(***************************************************************************)
(* Characters and action states.  A state is a family (the character whose *)
(* state table the code belongs to, or COMMON) and the raw 16-bit code.    *)
(***************************************************************************)
ZELDA == 19
SHEIK == 7
FOX == 1
COMMON == -1
\* the first character-specific state code
FirstSpecific == 341

State_from(value, character) ==
    IF value < FirstSpecific THEN [fam |-> COMMON, code |-> value]
    ELSE [fam |-> character, code |-> value]

Common_WAIT == [fam |-> COMMON, code |-> 14]
Zelda_TRANSFORM_GROUND == [fam |-> ZELDA, code |-> 349]
Zelda_TRANSFORM_AIR == [fam |-> ZELDA, code |-> 351]
Sheik_TRANSFORM_GROUND == [fam |-> SHEIK, code |-> 354]
Sheik_TRANSFORM_AIR == [fam |-> SHEIK, code |-> 356]

DEFAULT_CHAR_STATE == [character |-> 255, state |-> Common_WAIT, age |-> 0]

\* frame::Direction
LEFT == 0
RIGHT == 1

\* ReadBytesExt::read_f32::<BigEndian> of four bytes: the sign bit, the biased
\* exponent and the fraction of an IEEE 754 single
read_f32(b) ==
    [sign |-> b[1] \div 128,
     exp |-> (b[1] % 128) * 2 + b[2] \div 128,
     frac |-> ((b[2] % 128) * 256 + b[3]) * 256 + b[4]]

\* f32 comparisons with 0.0: false for both zeros and for a NaN
IsNaN(v) == v.exp = 255 /\ v.frac # 0
IsZero(v) == v.exp = 0 /\ v.frac = 0
LtZero(v) == v.sign = 1 /\ ~IsNaN(v) /\ ~IsZero(v)
GtZero(v) == v.sign = 0 /\ ~IsNaN(v) /\ ~IsZero(v)

\* mutant: a zero faces right
direction_ZeroRight(value) ==
    IF value.sign = 1 /\ ~(value.exp = 255 /\ value.frac # 0)
          /\ ~(value.exp = 0 /\ value.frac = 0)
    THEN [err |-> "", dir |-> 0]
    ELSE IF value.sign = 0 /\ ~(value.exp = 255 /\ value.frac # 0)
    THEN [err |-> "", dir |-> 1]
    ELSE [err |-> "InvalidDiscriminant", dir |-> 0]

\* direction: the facing from the sign of the float
direction(value) ==
    IF LtZero(value) THEN [err |-> "", dir |-> LEFT]
    ELSE IF GtZero(value) THEN [err |-> "", dir |-> RIGHT]
    ELSE [err |-> "InvalidDiscriminant", dir |-> LEFT]

\* mutant: the thresholds are passed one frame late
predict_character_Late(port, last) ==
    LET prev == last[port] IN
    IF prev.state \in {[fam |-> 19, code |-> 349], [fam |-> 19, code |-> 351]}
       /\ prev.age > 43 THEN 7
    ELSE IF prev.state \in {[fam |-> 7, code |-> 354], [fam |-> 7, code |-> 356]}
            /\ prev.age > 36 THEN 19
    ELSE prev.character

\* predict_character; the caller has checked port < NUM_PORTS (slots are 0-based)
predict_character(port, last) ==
    LET prev == last[port] IN
    IF prev.state \in {Zelda_TRANSFORM_GROUND, Zelda_TRANSFORM_AIR}
       /\ prev.age >= ZELDA_TRANSFORM_FRAME THEN SHEIK
    ELSE IF prev.state \in {Sheik_TRANSFORM_GROUND, Sheik_TRANSFORM_AIR}
            /\ prev.age >= SHEIK_TRANSFORM_FRAME THEN ZELDA
    ELSE prev.character

\* mutant: a repeated state is capped like a ground/air switch
NextAge_Capped(prev, state) ==
    IF state \in {[fam |-> 19, code |-> 349], [fam |-> 19, code |-> 351]}
       /\ prev.state \in {[fam |-> 19, code |-> 349], [fam |-> 19, code |-> 351]}
    THEN Min(42, prev.age + 1)
    ELSE IF state \in {[fam |-> 7, code |-> 354], [fam |-> 7, code |-> 356]}
            /\ prev.state \in {[fam |-> 7, code |-> 354], [fam |-> 7, code |-> 356]}
    THEN Min(35, prev.age + 1)
    ELSE IF state = prev.state THEN prev.age + 1
    ELSE 0

\* mutant: a changed state keeps the age instead of resetting it
NextAge_NoReset(prev, state) ==
    IF state = prev.state THEN prev.age + 1
    ELSE IF {state, prev.state} = {[fam |-> 19, code |-> 349], [fam |-> 19, code |-> 351]}
    THEN Min(42, prev.age + 1)
    ELSE IF {state, prev.state} = {[fam |-> 7, code |-> 354], [fam |-> 7, code |-> 356]}
    THEN Min(35, prev.age + 1)
    ELSE prev.age

\* mutant: a ground/air switch counts on without the cap
NextAge_Uncapped(prev, state) ==
    IF state = prev.state THEN prev.age + 1
    ELSE IF {state, prev.state} = {[fam |-> 19, code |-> 349], [fam |-> 19, code |-> 351]}
    THEN prev.age + 1
    ELSE IF {state, prev.state} = {[fam |-> 7, code |-> 354], [fam |-> 7, code |-> 356]}
    THEN prev.age + 1
    ELSE 0

\* the `age` match of update_last_char_state
NextAge(prev, state) ==
    IF state = prev.state THEN prev.age + 1
    ELSE IF state = Zelda_TRANSFORM_GROUND
    THEN IF prev.state = Zelda_TRANSFORM_AIR
         THEN Min(ZELDA_TRANSFORM_FRAME - 1, prev.age + 1) ELSE 0
    ELSE IF state = Zelda_TRANSFORM_AIR
    THEN IF prev.state = Zelda_TRANSFORM_GROUND
         THEN Min(ZELDA_TRANSFORM_FRAME - 1, prev.age + 1) ELSE 0
    ELSE IF state = Sheik_TRANSFORM_GROUND
    THEN IF prev.state = Sheik_TRANSFORM_AIR
         THEN Min(SHEIK_TRANSFORM_FRAME - 1, prev.age + 1) ELSE 0
    ELSE IF state = Sheik_TRANSFORM_AIR
    THEN IF prev.state = Sheik_TRANSFORM_GROUND
         THEN Min(SHEIK_TRANSFORM_FRAME - 1, prev.age + 1) ELSE 0
    ELSE 0

\* mutant: every slot is overwritten, not only the record's
update_last_char_state_All(port, character, state, last) ==
    [p \in DOMAIN last |->
        [character |-> character, state |-> state, age |-> NextAge(last[p], state)]]

\* lines 418-461: the slot of the record's port is replaced
update_last_char_state(port, character, state, last) ==
    [last EXCEPT ![port] =
        [character |-> character, state |-> state, age |-> NextAge(last[port], state)]]

(***************************************************************************)
(* Versioned record decoders, as built without the optional version        *)
(* features (the `#[cfg(not(..))]` branches).  A decoder reads from a      *)
(* slice of the payload: `left` is the number of bytes the slice still     *)
(* holds, `tried` the extensions whose decoder was entered, `exts` the     *)
(* extensions decoded in full.                                             *)
(***************************************************************************)
NewReader(n) == [left |-> n, err |-> "", exts |-> {}, tried |-> {}]

\* mutant: a short read returns what is left instead of failing
read_exact_Lenient(rd, width) ==
    IF rd.err # "" THEN rd
    ELSE IF rd.left < width THEN [rd EXCEPT !.left = 0]
    ELSE [rd EXCEPT !.left = @ - width]

\* Read::read_exact on the slice (every fixed-width read goes through it)
read_exact(rd, width) ==
    IF rd.err # "" THEN rd
    ELSE IF rd.left < width THEN [rd EXCEPT !.err = "TruncatedInput"]
    ELSE [rd EXCEPT !.left = @ - width]

\* r.is_empty()
is_empty(rd) == rd.left = 0

\* the decoder of the extension `name` is entered
Enter(rd, name) == [rd EXCEPT !.tried = @ \cup {name}]

\* Some(sub(r)?): the extension is reported only if its decoder succeeded
Some(d, name) == IF d.err # "" THEN d ELSE [d EXCEPT !.exts = @ \cup {name}]

\* the `true => None` arm of `match r.is_empty() { true => None, _ => Some(sub(r)?) }`
\* (a reader that has failed has returned already)
None(rd) == rd.err # "" \/ is_empty(rd)

game_start_v2_0(rd) == read_exact(rd, 1)

game_start_v1_5(rd) ==
    LET r == read_exact(rd, 1)
    IN IF None(r) THEN r ELSE Some(game_start_v2_0(Enter(r, "v2_0")), "v2_0")

player_bytes_v1_3(rd) == read_exact(rd, 16)

player_bytes_v1_0(rd) == read_exact(rd, 8)

\* lines 248-251 and 253-256: one block per player
players_v1_0(rd) ==
    player_bytes_v1_0(player_bytes_v1_0(player_bytes_v1_0(player_bytes_v1_0(rd))))

players_v1_3(rd) ==
    player_bytes_v1_3(player_bytes_v1_3(player_bytes_v1_3(player_bytes_v1_3(rd))))

\* base fields: 0x140 bytes up to and including random_seed
GameStartBase == 320

\* mutant: the v1_0 blocks are taken for absent whenever one block does not fit
NoPlayersV1_0_Short(rd) == rd.left < 8

\* line 248: `!cfg!(v1_0) && r.is_empty()`
NoPlayersV1_0(rd) == is_empty(rd)

\* line 253: `!cfg!(v1_3) && r.is_empty()`
NoPlayersV1_3(rd) == is_empty(rd)

game_start(n) ==
    LET base == read_exact(NewReader(n), GameStartBase)
        v1_0 == IF base.err # "" \/ NoPlayersV1_0(base) THEN base
                ELSE Some(players_v1_0(Enter(base, "v1_0")), "v1_0")
        v1_3 == IF v1_0.err # "" \/ NoPlayersV1_3(v1_0) THEN v1_0
                ELSE Some(players_v1_3(Enter(v1_0, "v1_3")), "v1_3")
    IN IF None(v1_3) THEN v1_3 ELSE Some(game_start_v1_5(Enter(v1_3, "v1_5")), "v1_5")

game_end_v2_0(rd) == read_exact(rd, 1)

game_end(n) ==
    LET r == read_exact(NewReader(n), 1)
    IN IF None(r) THEN r ELSE Some(game_end_v2_0(Enter(r, "v2_0")), "v2_0")

frame_pre_v1_4(rd) == read_exact(rd, 4)

frame_pre_v1_2(rd) ==
    LET r == read_exact(rd, 1)
    IN IF None(r) THEN r ELSE Some(frame_pre_v1_4(Enter(r, "v1_4")), "v1_4")

\* a frame event as decoded: the id's port, the character and state, the facing
FrameOk(f, character, dir, d, last) ==
    [err |-> d.err, exts |-> d.exts, tried |-> d.tried, port |-> f.port,
     character |-> character, state |-> State_from(f.state, character), dir |-> dir,
     facing |-> f.direction, last |-> last]

\* `facing` holds the four bytes of the facing float once they have been read
FrameErr(kind, last) ==
    [err |-> kind, exts |-> {}, tried |-> {}, port |-> 0, character |-> 0,
     state |-> Common_WAIT, dir |-> LEFT, facing |-> <<>>, last |-> last]

\* the error a reader ran into; no value is returned
ReadErr(rd, last) == [FrameErr(rd.err, last) EXCEPT !.tried = rd.tried]

\* the value of a decoder that has no frame fields
PlainOk(rd, last) == [FrameErr("", last) EXCEPT !.exts = rd.exts, !.tried = rd.tried]

\* byte offsets in the frame-pre payload: id, direction, end of base fields
FramePreBase == 58

frame_pre(n, f, last) ==
    LET id == read_exact(NewReader(n), 6) IN
    IF id.err # "" THEN ReadErr(id, last)
    ELSE IF f.port >= NUM_PORTS THEN FrameErr("Panic", last)
    ELSE LET character == predict_character(f.port, last)
             facing == read_exact(id, 18)
             dir == direction(read_f32(f.direction))
         IN IF facing.err # "" THEN ReadErr(facing, last)
            ELSE IF dir.err # "" THEN [FrameErr(dir.err, last) EXCEPT !.facing = f.direction]
            ELSE LET r == read_exact(facing, FramePreBase - 24)
                     d == IF None(r) THEN r
                          ELSE Some(frame_pre_v1_2(Enter(r, "v1_2")), "v1_2")
                 IN IF d.err # "" THEN ReadErr(d, last)
                    ELSE FrameOk(f, character, dir.dir, d, last)

frame_post_v2_1(rd) == read_exact(rd, 1)

frame_post_v2_0(rd) ==
    LET r == read_exact(rd, 14)
    IN IF None(r) THEN r ELSE Some(frame_post_v2_1(Enter(r, "v2_1")), "v2_1")

frame_post_v0_2(rd) ==
    LET r == read_exact(rd, 4)
    IN IF None(r) THEN r ELSE Some(frame_post_v2_0(Enter(r, "v2_0")), "v2_0")

FramePostBase == 33

frame_post(n, f, last) ==
    LET facing == read_exact(NewReader(n), 21)
        dir == direction(read_f32(f.direction))
    IN IF facing.err # "" THEN ReadErr(facing, last)
       ELSE IF dir.err # "" THEN [FrameErr(dir.err, last) EXCEPT !.facing = f.direction]
       ELSE LET r == read_exact(facing, FramePostBase - 21)
                d == IF None(r) THEN r
                     ELSE Some(frame_post_v0_2(Enter(r, "v0_2")), "v0_2")
            IN IF d.err # "" THEN ReadErr(d, last)
               ELSE IF f.port >= NUM_PORTS THEN FrameErr("Panic", last)
               ELSE FrameOk(f, f.character, dir.dir, d,
                       update_last_char_state(f.port, f.character,
                           State_from(f.state, f.character), last))

(***************************************************************************)
(* UBJSON subset reader (ubjson.rs).  `input` is the unread rest of the    *)
(* source and i the index of its next unread byte; a reader returns the    *)
(* error, the index after what it consumed, and the value.  Text is kept   *)
(* as its byte sequence; an Object is [t |-> "Int" | "Str" | "Map", ...].  *)
(***************************************************************************)
ObjInt(n) == [t |-> "Int", int |-> n, str |-> <<>>, map |-> EmptyMap]
ObjStr(b) == [t |-> "Str", int |-> 0, str |-> b, map |-> EmptyMap]
ObjMap(m) == [t |-> "Map", int |-> 0, str |-> <<>>, map |-> m]

RdOk(next, val) == [err |-> "", next |-> next, val |-> val]
RdErr(kind, next) == [err |-> kind, next |-> next, val |-> ObjInt(0)]

\* String::from_utf8 on the texts the model draws: ASCII bytes are valid, a
\* lone byte of 0x80 or more is not
IsUtf8(b) == \A k \in 1..Len(b) : b[k] < 128

parse_utf8(input, i) ==
    IF i > Len(input) THEN RdErr("TruncatedInput", Len(input) + 1)
    ELSE LET length == input[i] IN
         IF i + length > Len(input) THEN RdErr("TruncatedInput", Len(input) + 1)
         ELSE LET buf == SubSeq(input, i + 1, i + length) IN
              IF IsUtf8(buf) THEN RdOk(i + length + 1, ObjStr(buf))
              ELSE RdErr("InvalidText", i + length + 1)

\* parse_key: Some(key) is a Str object, None is reported as t = "End"
KeyEnd(next) == [err |-> "", next |-> next, val |-> [ObjInt(0) EXCEPT !.t = "End"]]

\* mutant: the closing marker is left unread
parse_key_Peek(input, i) ==
    IF i > Len(input) THEN RdErr("TruncatedInput", Len(input) + 1)
    ELSE IF input[i] = 85 THEN parse_utf8(input, i + 1)
    ELSE IF input[i] = 125 THEN KeyEnd(i)
    ELSE RdErr("MalformedMetadata", i + 1)

parse_key(input, i) ==
    IF i > Len(input) THEN RdErr("TruncatedInput", Len(input) + 1)
    ELSE IF input[i] = 85 THEN parse_utf8(input, i + 1)
    ELSE IF input[i] = 125 THEN KeyEnd(i + 1)
    ELSE RdErr("MalformedMetadata", i + 1)

RECURSIVE parse_val(_, _), MapLoop(_, _, _)

\* the `while match parse_key(r)? { ... } {}` loop with the map built so far
MapLoop(input, i, m) ==
    LET k == parse_key(input, i) IN
    IF k.err # "" THEN k
    ELSE IF k.val.t = "End" THEN RdOk(k.next, ObjMap(m))
    ELSE LET v == parse_val(input, k.next) IN
         IF v.err # "" THEN v
         ELSE MapLoop(input, v.next, Insert(m, k.val.str, v.val))

parse_map(input, i) == MapLoop(input, i, EmptyMap)

\* mutant: an unknown value marker is reported like an unknown key marker
parse_val_KeyError(input, i) ==
    IF i > Len(input) THEN RdErr("TruncatedInput", Len(input) + 1)
    ELSE IF input[i] = 83
    THEN IF i + 1 > Len(input) THEN RdErr("TruncatedInput", Len(input) + 1)
         ELSE IF input[i + 1] = 85 THEN parse_utf8(input, i + 2)
         ELSE RdErr("UnsupportedValueType", i + 2)
    ELSE IF input[i] = 108
    THEN IF i + 4 > Len(input) THEN RdErr("TruncatedInput", Len(input) + 1)
         ELSE RdOk(i + 5, ObjInt(read_i32(SubSeq(input, i + 1, i + 4))))
    ELSE IF input[i] = 123 THEN parse_map(input, i + 1)
    ELSE RdErr("MalformedMetadata", i + 1)

parse_val(input, i) ==
    IF i > Len(input) THEN RdErr("TruncatedInput", Len(input) + 1)
    ELSE IF input[i] = 83
    THEN IF i + 1 > Len(input) THEN RdErr("TruncatedInput", Len(input) + 1)
         ELSE IF input[i + 1] = 85 THEN parse_utf8(input, i + 2)
         ELSE RdErr("UnsupportedValueType", i + 2)
    ELSE IF input[i] = 108
    THEN IF i + 4 > Len(input) THEN RdErr("TruncatedInput", Len(input) + 1)
         ELSE RdOk(i + 5, ObjInt(read_i32(SubSeq(input, i + 1, i + 4))))
    ELSE IF input[i] = 123 THEN parse_map(input, i + 1)
    ELSE RdErr("UnsupportedValueType", i + 1)

(***************************************************************************)
(* The inputs the source may hold.                                         *)
(***************************************************************************)
\* the prologue, the prologue with its first or last byte altered, a source
\* that ends inside the prologue, an empty source
PrologueInputs ==
    {RAW_PROLOGUE, [RAW_PROLOGUE EXCEPT ![1] = 91], [RAW_PROLOGUE EXCEPT ![11] = 76],
     Prefix(RAW_PROLOGUE, 5), <<>>}

\* declared raw lengths: 0 (in progress); the size record of FullTable alone;
\* that record plus one skipped record; that record plus one record of each
\* known kind
RawLens == {0, 17, 28, 433}

RawLenInputs == {U32Bytes(n) : n \in RawLens} \cup {<<0, 0>>}

\* size tables as lists of (code, payload size)
FullTable == <<<<GameStart, 320>>, <<FramePre, 58>>, <<FramePost, 33>>, <<GameEnd, 1>>, <<64, 10>>>>
\* two frame kinds and an unrecognized code; GameStart and GameEnd are left out
FrameTable == <<<<FramePre, 100>>, <<FramePost, 120>>, <<64, 10>>>>
\* payload sizes that end inside an extension, and a code given twice
OddTable == <<<<GameStart, 321>>, <<FramePre, 60>>, <<FramePost, 35>>, <<GameEnd, 2>>, <<GameEnd, 0>>>>

Tables == {<<>>, FullTable, FrameTable, OddTable}

RECURSIVE TripleBytes(_)
TripleBytes(t) ==
    IF t = <<>> THEN <<>>
    ELSE <<Head(t)[1]>> \o U16Bytes(Head(t)[2]) \o TripleBytes(Tail(t))

\* the size record a producer writes for a table
TableRecord(t) == <<PAYLOADS_EVENT_CODE, 3 * Len(t) + 1>> \o TripleBytes(t)

\* well-formed records, and records with a wrong code, a wrong size byte, a
\* missing triple, or cut short by the end of the source
TableInputs ==
    {TableRecord(t) : t \in Tables}
    \cup {<<GameStart, 1>>, <<PAYLOADS_EVENT_CODE, 0>>, <<PAYLOADS_EVENT_CODE, 2>>,
          <<PAYLOADS_EVENT_CODE, 3>>, <<PAYLOADS_EVENT_CODE, 7, 64, 0, 10>>,
          <<PAYLOADS_EVENT_CODE>>, <<>>}

\* facing floats on the wire: 1.0, -1.0, 0.0, -0.0, a NaN, the smallest
\* positive (subnormal) single, negative infinity
F32_One == <<63, 128, 0, 0>>
F32_MinusOne == <<191, 128, 0, 0>>
F32_Zero == <<0, 0, 0, 0>>
F32_MinusZero == <<128, 0, 0, 0>>
F32_NaN == <<127, 192, 0, 0>>
F32_Tiny == <<0, 0, 0, 1>>
F32_MinusInf == <<255, 128, 0, 0>>

NoFields == [port |-> 0, character |-> 0, state |-> 0, direction |-> F32_One]

\* an event record at the current position: its code byte (-1: the source has
\* ended), whether the source ends right after the code byte, and the fields
\* of a frame payload
Record(code, short, f) == [code |-> code, short |-> short, f |-> f]

PlainInputs ==
    {Record(-1, FALSE, NoFields)}
    \cup {Record(c, sh, NoFields) : c \in {GameStart, GameEnd, 64, 65}, sh \in BOOLEAN}

FrameInputs(ports, chars, states, dirs) ==
    {Record(c, FALSE, [port |-> p, character |-> ch, state |-> st, direction |-> d]) :
        c \in {FramePre, FramePost}, p \in ports, ch \in chars, st \in states, d \in dirs}

\* frame-pre payloads carry no character byte
Canonical(in) ==
    IF in.code = FramePre THEN [in EXCEPT !.f.character = 0] ELSE in

Facings == {F32_One, F32_MinusOne, F32_Zero, F32_MinusZero, F32_NaN, F32_Tiny, F32_MinusInf}

StreamInputs ==
    PlainInputs
    \cup {Canonical(in) : in \in FrameInputs({0, 3, 4}, {ZELDA}, {14, 349},
                                  {F32_One, F32_MinusOne, F32_Zero})}

\* the rest of the source after the raw block
MapX == <<85, 1, 120, 123, 85, 1, 121, 108, 0, 0, 0, 5, 125, 125>>
\* {"x": {}, "y": -1} and {"x": "}"}
MapXY == <<85, 1, 120, 123, 125, 85, 1, 121, 108, 255, 255, 255, 255, 125>>
MapBrace == <<85, 1, 120, 83, 85, 1, 125, 125>>
MapInputs ==
    {<<125>>, MapX, MapXY, MapBrace, <<85, 1, 120, 83, 85, 1, 97, 125>>,
     <<108>>, <<85, 1, 120, 85>>, <<85, 1, 120, 83, 108>>, <<85, 1, 255, 108, 0, 0, 0, 5, 125>>,
     <<85, 1, 120>>, <<85, 1, 120, 123, 83, 125>>}

TailInputs ==
    {METADATA_PROLOGUE \o m \o <<125>> : m \in MapInputs}
    \cup {METADATA_PROLOGUE \o <<125>> \o c : c \in {<<0>>, <<>>}}
    \cup {[METADATA_PROLOGUE EXCEPT ![1] = 83] \o <<125, 125>>, Prefix(METADATA_PROLOGUE, 3)}

(***************************************************************************)
(* event: one record of the raw stream, up to the sink's callback.         *)
(***************************************************************************)
EvErr(kind, consumed, last) ==
    [err |-> kind, consumed |-> consumed, read |-> FALSE, size |-> 0, kind |-> NoEvent,
     dec |-> FrameErr(kind, last)]

\* mutant: a code the table lacks has size 0
PayloadSize_Default(table, code) == IF code \in DOMAIN table THEN table[code] ELSE 0

\* line 584: payload_sizes.get(&code); -1 stands for None
NoSize == -1
PayloadSize(table, code) == IF code \in DOMAIN table THEN table[code] ELSE NoSize

\* the name of the handler of a known kind
HandlerOf(kind) ==
    IF kind = GameStart THEN "game_start"
    ELSE IF kind = FramePre THEN "frame_pre"
    ELSE IF kind = FramePost THEN "frame_post"
    ELSE "game_end"

\* mutant: the result of the frame-pre handler is dropped
HandlerFailed_DropPre(name, ok) == ~ok /\ name # "frame_pre"

\* lines 592-595 and 631: the `?` on what a handler returns
HandlerFailed(name, ok) == ~ok

\* mutant: payload bytes the decoder leaves unread are an error
Decode_Strict(kind, size, f, last) ==
    IF size > (IF kind = 54 THEN 418 ELSE IF kind = 55 THEN 63 ELSE IF kind = 56 THEN 52 ELSE 2)
    THEN FrameErr("TrailingBytes", last)
    ELSE IF kind = 54
    THEN LET d == game_start(size)
         IN IF d.err # "" THEN ReadErr(d, last) ELSE PlainOk(d, last)
    ELSE IF kind = 57
    THEN LET d == game_end(size)
         IN IF d.err # "" THEN ReadErr(d, last) ELSE PlainOk(d, last)
    ELSE IF kind = 55 THEN frame_pre(size, f, last)
    ELSE frame_post(size, f, last)

\* the decoder of a known kind applied to a payload of `size` bytes
Decode(kind, size, f, last) ==
    IF kind = GameStart
    THEN LET d == game_start(size)
         IN IF d.err # "" THEN ReadErr(d, last) ELSE PlainOk(d, last)
    ELSE IF kind = GameEnd
    THEN LET d == game_end(size)
         IN IF d.err # "" THEN ReadErr(d, last) ELSE PlainOk(d, last)
    ELSE IF kind = FramePre THEN frame_pre(size, f, last)
    ELSE frame_post(size, f, last)

\* mutant: what the record decoder returns is not looked at
event_Swallow(in, table, last) ==
    IF in.code = -1 THEN EvErr("TruncatedInput", 0, last)
    ELSE IF PayloadSize(table, in.code) = NoSize THEN EvErr("UnknownEventSize", 1, last)
    ELSE LET size == PayloadSize(table, in.code)
             kind == Event_try_from(in.code)
         IN IF in.short /\ size > 0 THEN EvErr("TruncatedInput", 1, last)
            ELSE IF kind = NoEvent
            THEN [err |-> "", consumed |-> 1 + size, read |-> TRUE, size |-> size,
                  kind |-> NoEvent, dec |-> FrameErr("", last)]
            ELSE [err |-> "", consumed |-> 1 + size, read |-> TRUE, size |-> size,
                  kind |-> kind, dec |-> Decode(kind, size, in.f, last)]

event(in, table, last) ==
    IF in.code = -1 THEN EvErr("TruncatedInput", 0, last)
    ELSE IF PayloadSize(table, in.code) = NoSize THEN EvErr("UnknownEventSize", 1, last)
    ELSE LET size == PayloadSize(table, in.code)
             kind == Event_try_from(in.code)
         IN IF in.short /\ size > 0 THEN EvErr("TruncatedInput", 1, last)
            ELSE IF kind = NoEvent
            THEN [err |-> "", consumed |-> 1 + size, read |-> TRUE, size |-> size,
                  kind |-> NoEvent, dec |-> FrameErr("", last)]
            ELSE LET d == Decode(kind, size, in.f, last)
                 IN [err |-> d.err, consumed |-> 1 + size, read |-> TRUE, size |-> size,
                     kind |-> kind, dec |-> d]

\* mutant: the code byte is not counted
EventBytes_NoCode(size) == size

\* line 599: the byte count event returns
EventBytes(size) == 1 + size

\* mutant: one more record is read when the count has reached the length
LoopCond_OneMore(rl, br, le) == (rl = 0 \/ br <= rl) /\ le # 57

\* line 616: the loop condition
LoopCond(rl, br, le) == (rl = 0 \/ br < rl) /\ le # GameEnd

\* mutant: a declared length of 0 is checked like any other
AccountingMismatch_ZeroToo(rl, br) == br # rl

\* mutant: only a short count is an error
AccountingMismatch_ShortOnly(rl, br) == rl # 0 /\ br < rl

\* line 622: the byte-accounting check
AccountingMismatch(rl, br) == rl # 0 /\ br # rl

(***************************************************************************)
(* parse as a state machine.                                               *)
(***************************************************************************)
VARIABLES
    pc,               \* where parse is
    pos,              \* bytes taken from the source so far
    raw_len,          \* the declared raw length
    bytes_read,       \* parse's running count of raw-stream bytes
    sizes,            \* the payload-size table
    last_char_states, \* the per-slot CharState array
    last_event,       \* the kind of the last record, or NoEvent
    pending,          \* the decoded event whose callback is being made
    records,          \* log: <<code, payload size>> of every record read
    calls,            \* log: the sink callbacks made, in order
    input,            \* the bytes the last read found at its position
    tail,             \* the unread rest of the source after the raw block
    meta,             \* the metadata map handed to the sink
    decoded,          \* what the record decoder returned in the current call of event
    result            \* "running", "ok" or the error parse returned

vars == <<pc, pos, raw_len, bytes_read, sizes, last_char_states, last_event, pending,
          records, calls, input, tail, meta, decoded, result>>

\* no record decoder has run
NoDecode ==
    [kind |-> NoEvent, size |-> 0, err |-> "", exts |-> {}, tried |-> {}, facing |-> <<>>]

NoPending == [kind |-> NoEvent, size |-> 0, dec |-> FrameErr("", [p \in {} |-> 0])]

DefaultStates == [p \in 0..(NUM_PORTS - 1) |-> DEFAULT_CHAR_STATE]

Init ==
    /\ pc = "prologue"
    /\ pos = 0
    /\ raw_len = 0
    /\ bytes_read = 0
    /\ sizes = EmptyMap
    /\ last_char_states = DefaultStates
    /\ last_event = NoEvent
    /\ pending = NoPending
    /\ records = <<>>
    /\ calls = <<>>
    /\ input = <<>>
    /\ tail = <<>>
    /\ meta = ObjMap(EmptyMap)
    /\ decoded = NoDecode
    /\ result = "running"

\* parse returns Err(kind)
Fail(kind) == pc' = "done" /\ result' = kind

\* lines 606-608
ReadPrologue ==
    /\ pc = "prologue"
    /\ \E bytes \in PrologueInputs :
         LET e == expect_bytes(bytes, RAW_PROLOGUE) IN
         /\ input' = bytes
         /\ pos' = pos + e.consumed
         /\ IF e.err # "" THEN Fail(e.err) ELSE pc' = "raw_len" /\ result' = result
    /\ UNCHANGED <<decoded, raw_len, bytes_read, sizes, last_char_states, last_event, pending,
                   records, calls, tail, meta>>

\* line 610
ReadRawLen ==
    /\ pc = "raw_len"
    /\ \E bytes \in RawLenInputs :
         /\ input' = bytes
         /\ IF Len(bytes) < 4
            THEN /\ pos' = pos + Len(bytes)
                 /\ Fail("TruncatedInput")
                 /\ raw_len' = raw_len
            ELSE /\ pos' = pos + 4
                 /\ raw_len' = read_u32(bytes)
                 /\ pc' = "payload_sizes"
                 /\ result' = result
    /\ UNCHANGED <<decoded, bytes_read, sizes, last_char_states, last_event, pending,
                   records, calls, tail, meta>>

\* lines 611-616: payload_sizes, then the first test of the loop condition
ReadPayloadSizes ==
    /\ pc = "payload_sizes"
    /\ \E bytes \in TableInputs :
         LET r == payload_sizes(bytes) IN
         /\ input' = bytes
         /\ pos' = pos + r.consumed
         /\ IF r.err # ""
            THEN /\ Fail(r.err)
                 /\ UNCHANGED <<bytes_read, sizes>>
            ELSE /\ bytes_read' = r.bytes
                 /\ sizes' = r.sizes
                 /\ pc' = IF LoopCond(raw_len, r.bytes, NoEvent) THEN "event" ELSE "after_loop"
                 /\ result' = result
    /\ UNCHANGED <<decoded, raw_len, last_char_states, last_event, pending, records, calls,
                   tail, meta>>

\* lines 618-620 and the next test of the loop condition
EndIteration(size, kind) ==
    /\ bytes_read' = bytes_read + EventBytes(size)
    /\ last_event' = kind
    /\ pc' = IF LoopCond(raw_len, bytes_read + EventBytes(size), kind)
             THEN "event" ELSE "after_loop"
    /\ result' = result

\* lines 581-597, up to the call of the handler: the source holds at most
\* `max` records
Event(inputs, max) ==
    /\ pc = "event"
    /\ \E in \in inputs :
         /\ Len(records) >= max => in.code = -1
         /\ LET r == event(in, sizes, last_char_states) IN
            /\ input' = IF in.code = -1 THEN <<>> ELSE <<in.code>>
            /\ pos' = pos + r.consumed
            /\ records' = IF r.read THEN Append(records, <<in.code, r.size>>) ELSE records
            /\ last_char_states' = r.dec.last
            /\ decoded' = IF r.read /\ r.kind # NoEvent
                          THEN [kind |-> r.kind, size |-> r.size, err |-> r.dec.err,
                                exts |-> r.dec.exts, tried |-> r.dec.tried,
                                facing |-> r.dec.facing]
                          ELSE decoded
            /\ IF r.err # ""
               THEN /\ Fail(r.err)
                    /\ UNCHANGED <<bytes_read, last_event, pending>>
               ELSE IF r.kind = NoEvent
               THEN /\ EndIteration(r.size, NoEvent)
                    /\ UNCHANGED pending
               ELSE /\ pending' = [kind |-> r.kind, size |-> r.size, dec |-> r.dec]
                    /\ pc' = "callback"
                    /\ UNCHANGED <<bytes_read, last_event, result>>
    /\ UNCHANGED <<raw_len, sizes, calls, tail, meta>>

\* lines 592-599: the handler is called and returns Ok or Err
Deliver ==
    /\ pc = "callback"
    /\ pending' = NoPending
    /\ \E ok \in BOOLEAN :
         /\ calls' = Append(calls, [name |-> HandlerOf(pending.kind), ok |-> ok])
         /\ IF HandlerFailed(HandlerOf(pending.kind), ok)
            THEN Fail("SinkFailure") /\ UNCHANGED <<bytes_read, last_event>>
            ELSE EndIteration(pending.size, pending.kind)
    /\ decoded' = NoDecode
    /\ UNCHANGED <<pos, raw_len, sizes, last_char_states, records, input, tail, meta>>

\* lines 622-628: the byte-accounting check and the metadata prologue
AfterLoop ==
    /\ pc = "after_loop"
    /\ IF AccountingMismatch(raw_len, bytes_read)
       THEN Fail("ByteAccountingMismatch") /\ UNCHANGED <<pos, input, tail>>
       ELSE \E bytes \in TailInputs :
              LET e == expect_bytes(bytes, METADATA_PROLOGUE) IN
              /\ input' = bytes
              /\ pos' = pos + e.consumed
              /\ IF e.err # "" THEN Fail(e.err) /\ tail' = tail
                 ELSE /\ pc' = "metadata"
                      /\ tail' = SubSeq(bytes, e.consumed + 1, Len(bytes))
                      /\ result' = result
    /\ UNCHANGED <<decoded, raw_len, bytes_read, sizes, last_char_states, last_event, pending,
                   records, calls, meta>>

\* line 631: ubjson::parse_map
ReadMetadata ==
    /\ pc = "metadata"
    /\ LET m == parse_map(tail, 1) IN
       /\ pos' = pos + (m.next - 1)
       /\ tail' = SubSeq(tail, m.next, Len(tail))
       /\ IF m.err # "" THEN Fail(m.err) /\ meta' = meta
          ELSE pc' = "metadata_callback" /\ meta' = m.val /\ result' = result
    /\ UNCHANGED <<decoded, raw_len, bytes_read, sizes, last_char_states, last_event, pending,
                   records, calls, input>>

\* line 631: handlers.metadata is called and returns Ok or Err
DeliverMetadata ==
    /\ pc = "metadata_callback"
    /\ \E ok \in BOOLEAN :
         /\ calls' = Append(calls, [name |-> "metadata", ok |-> ok])
         /\ IF HandlerFailed("metadata", ok) THEN Fail("SinkFailure")
            ELSE pc' = "closing" /\ result' = result
    /\ UNCHANGED <<decoded, pos, raw_len, bytes_read, sizes, last_char_states, last_event, pending,
                   records, input, tail, meta>>

\* lines 633-634
ReadClosing ==
    /\ pc = "closing"
    /\ LET e == expect_bytes(tail, CLOSING_BRACE) IN
       /\ pos' = pos + e.consumed
       /\ tail' = SubSeq(tail, e.consumed + 1, Len(tail))
       /\ IF e.err # "" THEN Fail(e.err) ELSE pc' = "done" /\ result' = "ok"
    /\ UNCHANGED <<decoded, raw_len, bytes_read, sizes, last_char_states, last_event, pending,
                   records, calls, input, meta>>

StreamEvent == Event(StreamInputs, MaxEvents)

Next ==
    \/ ReadPrologue
    \/ ReadRawLen
    \/ ReadPayloadSizes
    \/ StreamEvent
    \/ Deliver
    \/ AfterLoop
    \/ ReadMetadata
    \/ DeliverMetadata
    \/ ReadClosing

Spec == Init /\ [][Next]_vars

\* parse is one sequential call: while it has not returned, its next step is
\* taken (every read of a finite source returns, and so does every callback)
LiveInputs ==
    PlainInputs
    \cup {Canonical(in) : in \in FrameInputs({0, 4}, {ZELDA}, {14}, {F32_One, F32_Zero})}

LiveEvent == Event(LiveInputs, MaxLiveEvents)

NextLive ==
    \/ ReadPrologue
    \/ ReadRawLen
    \/ ReadPayloadSizes
    \/ LiveEvent
    \/ Deliver
    \/ AfterLoop
    \/ ReadMetadata
    \/ DeliverMetadata
    \/ ReadClosing

SpecLive == Init /\ [][NextLive]_vars /\ WF_vars(NextLive)

(***************************************************************************)
(* The event loop entered after earlier frames: the per-slot states are    *)
(* drawn from those earlier frame-post records can leave behind; the logs  *)
(* and byte counts start at the point of entry.                            *)
(***************************************************************************)
CharTable == <<<<FramePre, 63>>, <<FramePost, 52>>>>

TrackedCharacters == {ZELDA, SHEIK}
TrackedStates == {14, 349, 351, 354, 356}
TrackedAges == {0, 35, 36, 42, 43}

\* what update_last_char_state stores: the state is read under the character
CharStates ==
    {[character |-> c, state |-> State_from(s, c), age |-> a] :
        c \in TrackedCharacters, s \in TrackedStates, a \in TrackedAges}

CharInputs ==
    {Record(-1, FALSE, NoFields)}
    \cup {Canonical(in) :
            in \in FrameInputs({0, 4}, TrackedCharacters, TrackedStates, {F32_One})}

InitChar ==
    /\ pc = "event"
    /\ pos = Len(RAW_PROLOGUE) + 4 + Len(TableRecord(CharTable))
    /\ raw_len = 0
    /\ bytes_read = Len(TableRecord(CharTable))
    /\ sizes = payload_sizes(TableRecord(CharTable)).sizes
    /\ \E cs \in CharStates : last_char_states = [DefaultStates EXCEPT ![0] = cs]
    /\ last_event = NoEvent
    /\ pending = NoPending
    /\ records = <<>>
    /\ calls = <<>>
    /\ input = <<>>
    /\ tail = <<>>
    /\ meta = ObjMap(EmptyMap)
    /\ decoded = NoDecode
    /\ result = "running"

CharEvent == Event(CharInputs, MaxCharEvents)

NextChar ==
    \/ CharEvent
    \/ Deliver

SpecChar == InitChar /\ [][NextChar]_vars

(***************************************************************************)
(* The event loop entered under a size table that gives every known kind   *)
(* a payload of n bytes, for every n up to MaxPayload: each record decoder *)
(* is applied to every payload length.                                     *)
(***************************************************************************)
DecTable(n) == <<<<GameStart, n>>, <<FramePre, n>>, <<FramePost, n>>, <<GameEnd, n>>>>

DecInputs ==
    {Record(-1, FALSE, NoFields), Record(GameStart, FALSE, NoFields),
     Record(GameEnd, FALSE, NoFields)}
    \cup {Canonical(in) : in \in FrameInputs({0, 4}, {ZELDA}, {14}, Facings)}

InitDec ==
    \E n \in 0..MaxPayload :
        /\ pc = "event"
        /\ pos = Len(RAW_PROLOGUE) + 4 + Len(TableRecord(DecTable(n)))
        /\ raw_len = 0
        /\ bytes_read = Len(TableRecord(DecTable(n)))
        /\ sizes = payload_sizes(TableRecord(DecTable(n))).sizes
        /\ last_char_states = DefaultStates
        /\ last_event = NoEvent
        /\ pending = NoPending
        /\ records = <<>>
        /\ calls = <<>>
        /\ input = <<>>
        /\ tail = <<>>
        /\ meta = ObjMap(EmptyMap)
        /\ decoded = NoDecode
        /\ result = "running"

DecEvent == Event(DecInputs, MaxDecEvents)

NextDec ==
    \/ DecEvent
    \/ Deliver

SpecDec == InitDec /\ [][NextDec]_vars

(***************************************************************************)
(* Properties.                                                             *)
(***************************************************************************)
\* where the raw block starts: after the prologue and the length field
RawStart == Len(RAW_PROLOGUE) + 4

KnownCodes == {54, 55, 56, 57}

NameOfCode(code) ==
    CASE code = 54 -> "game_start"
      [] code = 55 -> "frame_pre"
      [] code = 56 -> "frame_post"
      [] code = 57 -> "game_end"

IsKnownRecord(r) == r[1] \in KnownCodes
IsEventCall(c) == c.name # "metadata"

\* the names of the callbacks made, and of those for event records
CallNames == [i \in 1..Len(calls) |-> calls[i].name]
EventCallNames ==
    LET ev == SelectSeq(calls, IsEventCall) IN [i \in 1..Len(ev) |-> ev[i].name]

\* one callback per record of a known kind, in stream order
ExpectedCalls(rs) ==
    LET known == SelectSeq(rs, IsKnownRecord)
    IN [i \in 1..Len(known) |-> NameOfCode(known[i][1])]

MetadataCalled == \E i \in 1..Len(calls) : calls[i].name = "metadata"
SinkFailed(cs) == \E i \in 1..Len(cs) : ~cs[i].ok

RECURSIVE RecordBytes(_)
RecordBytes(rs) ==
    IF rs = <<>> THEN 0 ELSE 1 + Head(rs)[2] + RecordBytes(Tail(rs))

PastLoop == pc \in {"metadata", "metadata_callback", "closing"} \/ result = "ok" \/ MetadataCalled

\* the event loop has ended (its size record was read, and the count reached
\* the declared length or the last record was GameEnd)
LoopExited ==
    /\ pc \in {"after_loop", "metadata", "metadata_callback", "closing", "done"}
    /\ bytes_read > 0
    /\ (raw_len # 0 /\ bytes_read >= raw_len) \/ last_event = 57

\* C1: with a nonzero declared length, parse gets past the event loop only if
\* the bytes consumed by the size record and the event records equal the
\* declared length; when the loop ends with any other count (short or over),
\* parse fails with the byte-accounting error and the metadata callback is
\* never made.  The count is the number of bytes taken from the source.
C1_ByteAccounting ==
    /\ pc = "after_loop" => bytes_read = pos - RawStart
    /\ (raw_len # 0 /\ PastLoop) => bytes_read = raw_len
    /\ (raw_len # 0 /\ LoopExited /\ bytes_read # raw_len) =>
          /\ pc = "after_loop" \/ (pc = "done" /\ result = "ByteAccountingMismatch")
          /\ ~MetadataCalled

\* parse has failed on a stream that overshoots its declared length
C1_Witness ==
    /\ result = "ByteAccountingMismatch"
    /\ bytes_read > raw_len
    /\ Len(records) >= 2

\* C2: the event loop stops at the first of (a) a nonzero declared length
\* reached by the consumed count, (b) a GameEnd record just processed: a record
\* is read or delivered only while neither holds, and the loop has ended only
\* when one of them holds.
C2_LoopStops ==
    /\ pc \in {"event", "callback"} =>
          (raw_len = 0 \/ bytes_read < raw_len) /\ last_event # 57
    /\ (pc \in {"after_loop", "metadata", "metadata_callback", "closing"} \/ result = "ok") =>
          (raw_len # 0 /\ bytes_read >= raw_len) \/ last_event = 57

\* the loop ended on the byte count, after a record that is not GameEnd
C2_Witness ==
    /\ pc = "after_loop"
    /\ last_event # 57
    /\ records # <<>>
    /\ raw_len # 0 /\ bytes_read = raw_len

\* C3: the event callbacks made are, in stream order, one per record of a
\* known kind; while a record's callback is being made it is the only one
\* outstanding, and a record is read only when every earlier callback has
\* returned.  A record that fails to decode ends the parse with no callback.
C3_CallbackOrder ==
    LET exp == ExpectedCalls(records)
        got == EventCallNames
        allButLast == Len(exp) = Len(got) + 1 /\ got = SubSeq(exp, 1, Len(got))
                      /\ IsKnownRecord(records[Len(records)])
    IN /\ pc = "callback" => allButLast /\ pending.kind = records[Len(records)][1]
       /\ (pc \in {"event", "after_loop", "metadata", "metadata_callback", "closing"}
           \/ result \in {"ok", "SinkFailure"}) => got = exp
       /\ (pc = "done" /\ result \notin {"ok", "SinkFailure"}) =>
             \/ got = exp
             \/ allButLast /\ result \in {"TruncatedInput", "InvalidDiscriminant", "Panic"}

\* records of known kinds and a skipped record between them, all delivered
C3_Witness ==
    /\ pc = "after_loop"
    /\ Len(records) = 4
    /\ \E i \in 1..4 : records[i][1] = 64
    /\ Len(calls) = 3

\* C4: when a handler returns a failure, parse returns that failure at once:
\* no later callback is made and no further byte is read.
C4_SinkFailure ==
    [][SinkFailed(calls') =>
          /\ result' = "SinkFailure"
          /\ pc' = "done"
          /\ pos' = pos
          /\ SinkFailed(calls) => calls' = calls]_vars

\* a handler failed after earlier callbacks had succeeded
C4_Witness ==
    /\ result = "SinkFailure"
    /\ Len(calls) >= 2
    /\ ~calls[Len(calls)].ok

\* C5: a code byte that the size table lacks (a known kind included) ends the
\* parse with the unknown-event-size error: only the code byte is read, no
\* callback is made, no record is processed.
C5_UnknownSize ==
    [][(pc = "event" /\ Len(input') = 1 /\ input'[1] \notin DOMAIN sizes) =>
          /\ result' = "UnknownEventSize"
          /\ pc' = "done"
          /\ pos' = pos + 1
          /\ calls' = calls
          /\ records' = records
          /\ last_char_states' = last_char_states]_vars

\* a GameStart code met under a table that leaves GameStart out
C5_Witness ==
    /\ result = "UnknownEventSize"
    /\ input = <<54>>
    /\ 55 \in DOMAIN sizes
    /\ records # <<>>

\* C6: a record whose code is in the table but is not a known kind is
\* skipped: its payload is consumed, no callback is made, no error is raised,
\* the per-slot states are unchanged, and the loop goes on (to the next record
\* unless the declared length has been reached).  The record is one the
\* source holds in full: the code byte and the payload have been read.
C6_SkipUnrecognized ==
    [][(pc = "event" /\ Len(input') = 1 /\ input'[1] \in DOMAIN sizes
        /\ input'[1] \notin KnownCodes /\ pos' = pos + 1 + sizes[input'[1]]) =>
          LET size == sizes[input'[1]] IN
          /\ result' = "running"
          /\ bytes_read' = bytes_read + 1 + size
          /\ records' = Append(records, <<input'[1], size>>)
          /\ calls' = calls
          /\ last_char_states' = last_char_states
          /\ last_event' = 0
          /\ pc' = IF raw_len # 0 /\ bytes_read' >= raw_len THEN "after_loop" ELSE "event"]_vars

\* a record has been skipped after a frame-post had changed a slot
C6_Witness ==
    /\ pc = "event"
    /\ records # <<>>
    /\ records[Len(records)][1] = 64
    /\ last_char_states # DefaultStates

\* C7: payload_sizes succeeds only if the first byte is 0x35 and the size
\* byte S has S mod 3 = 1, and fails with the malformed-envelope error
\* otherwise; a failure ends the parse with no callback; on success exactly
\* (S-1)/3 triples are read and the count returned is 1+S, the number of bytes
\* taken from the source.
C7_PayloadSizes ==
    [][pc = "payload_sizes" =>
          LET b == input' IN
          /\ result' = "running" =>
                /\ Len(b) >= 2 /\ b[1] = 53 /\ b[2] % 3 = 1
                /\ LET n == (b[2] - 1) \div 3 IN
                   /\ Len(b) >= 2 + 3 * n
                   /\ pos' - pos = 2 + 3 * n
                   /\ pos' - pos = 1 + b[2]
                   /\ bytes_read' = 1 + b[2]
                   /\ DOMAIN sizes' = {b[3 * k] : k \in 1..n}
                   /\ \A k \in 1..n :
                        (\A j \in (k + 1)..n : b[3 * j] # b[3 * k]) =>
                            sizes'[b[3 * k]] = b[3 * k + 1] * 256 + b[3 * k + 2]
          /\ result' # "running" => pc' = "done" /\ calls' = <<>>
          /\ ((Len(b) >= 1 /\ b[1] # 53) \/ (Len(b) >= 2 /\ b[1] = 53 /\ b[2] % 3 # 1)) =>
                result' = "MalformedEnvelope"]_vars

\* a size record of five triples has just been read
C7_Witness ==
    /\ pc = "event"
    /\ records = <<>>
    /\ Len(input) = 17
    /\ bytes_read = 17
    /\ Cardinality(DOMAIN sizes) = 5

\* C8: a prologue that differs from the fixed 11 bytes fails with the
\* malformed-envelope error; no callback is made and nothing is read after
\* the 11 bytes compared (neither the length field nor the raw stream).
C8_BadPrologue ==
    [][(pc = "prologue" /\ Len(input') >= 11 /\ SubSeq(input', 1, 11) # RAW_PROLOGUE) =>
          /\ result' = "MalformedEnvelope"
          /\ pc' = "done"
          /\ pos' = 11
          /\ calls' = <<>>
          /\ UNCHANGED <<raw_len, bytes_read, sizes, records>>]_vars

\* the parse has failed on a prologue whose first byte is altered
C8_Witness ==
    /\ result = "MalformedEnvelope"
    /\ pos = 11
    /\ Len(input) = 11
    /\ input[1] # 123
    /\ Tail(input) = Tail(RAW_PROLOGUE)

\* the minimal stream: one record of each known kind, in order, under the
\* full table, with the declared length equal to the size record plus the four
\* records
MinimalRecords == <<<<54, 320>>, <<55, 58>>, <<56, 33>>, <<57, 1>>>>
MinimalStream ==
    /\ records = MinimalRecords
    /\ raw_len = Len(TableRecord(FullTable)) + RecordBytes(MinimalRecords)

\* what follows the raw block is a well-formed metadata map and closing byte
GoodTails ==
    {METADATA_PROLOGUE \o m \o <<125>> :
        m \in {<<125>>, MapX, MapXY, MapBrace, <<85, 1, 120, 83, 85, 1, 97, 125>>}}

\* the handlers succeed and the container is well formed after the raw block
SoundRun == ~SinkFailed(calls) /\ input \notin (TailInputs \ GoodTails)

\* C9 as stated: the minimal stream parses with no error and delivers
\* exactly four sink callbacks, game_start, frame_pre, frame_post, game_end.
C9_Original ==
    (MinimalStream /\ pc = "done" /\ SoundRun) =>
        /\ result = "ok"
        /\ CallNames = <<"game_start", "frame_pre", "frame_post", "game_end">>

\* C9 (amended): the minimal stream parses with no error and delivers
\* exactly four event callbacks, game_start, frame_pre, frame_post, game_end,
\* in that order, followed by the one metadata callback.
C9_MinimalStream ==
    (MinimalStream /\ pc = "done" /\ SoundRun) =>
        /\ result = "ok"
        /\ EventCallNames = <<"game_start", "frame_pre", "frame_post", "game_end">>
        /\ CallNames = EventCallNames \o <<"metadata">>

\* the minimal stream has been parsed to the end
C9_Witness ==
    /\ MinimalStream
    /\ result = "ok"
    /\ Len(calls) = 5

\* C10: the character predicted for a frame-pre is the slot's previous
\* character, except SHEIK after a Zelda transform state (ground or air) of
\* age 43 or more and ZELDA after a Sheik transform state (ground or air) of
\* age 36 or more.
C10_Predict ==
    (pc = "callback" /\ pending.kind = 55) =>
        LET prev == last_char_states[pending.dec.port] IN
        pending.dec.character =
            IF prev.state \in {Zelda_TRANSFORM_GROUND, Zelda_TRANSFORM_AIR} /\ prev.age >= 43
            THEN SHEIK
            ELSE IF prev.state \in {Sheik_TRANSFORM_GROUND, Sheik_TRANSFORM_AIR} /\ prev.age >= 36
            THEN ZELDA
            ELSE prev.character

\* a frame-pre decoded as Sheik's right at Zelda's threshold
C10_Witness ==
    /\ pc = "callback" /\ pending.kind = 55
    /\ pending.dec.character = SHEIK
    /\ last_char_states[pending.dec.port].character = ZELDA
    /\ last_char_states[pending.dec.port].age = 43

\* the slot holds character A's ground-transform state one frame below A's
\* threshold
OneBelow(cs) ==
    \/ cs.state = Zelda_TRANSFORM_GROUND /\ cs.age = 42
    \/ cs.state = Sheik_TRANSFORM_GROUND /\ cs.age = 35

\* the character a state belongs to, and the other one of the pair
OwnerOf(state) == IF state = Zelda_TRANSFORM_GROUND THEN ZELDA ELSE SHEIK
AlternateOf(state) == IF state = Zelda_TRANSFORM_GROUND THEN SHEIK ELSE ZELDA

\* C11: for a slot that holds A's ground-transform state at A's threshold
\* minus one, the next frame-pre of the slot is decoded as character A and
\* leaves the slot as it is; a frame-post that reports A's ground-transform
\* state again leaves the slot at exactly A's threshold, where the predictor
\* answers the alternate character.
C11_TransformEdge ==
    [][(pc = "event" /\ pc' = "callback" /\ pending'.dec.port \in 0..3
        /\ OneBelow(last_char_states[pending'.dec.port])) =>
          LET p == pending'.dec.port
              prev == last_char_states[p]
          IN /\ pending'.kind = 55 =>
                   /\ pending'.dec.character = OwnerOf(prev.state)
                   /\ last_char_states' = last_char_states
             /\ (pending'.kind = 56 /\ pending'.dec.state = prev.state) =>
                   /\ last_char_states'[p].age = prev.age + 1
                   /\ last_char_states'[p].age =
                         IF prev.state = Zelda_TRANSFORM_GROUND THEN 43 ELSE 36
                   /\ predict_character(p, last_char_states') = AlternateOf(prev.state)]_vars

\* a frame-pre decoded as Zelda, then a frame-post that brought the slot to
\* Zelda's threshold
C11_Witness ==
    /\ pc = "callback" /\ pending.kind = 56
    /\ Len(records) = 2 /\ records[1][1] = 55
    /\ calls = <<[name |-> "frame_pre", ok |-> TRUE]>>
    /\ last_char_states[0] = [character |-> ZELDA, state |-> Zelda_TRANSFORM_GROUND, age |-> 43]

\* a ground<->air switch between the two transform states of one character
TransformSwitch(a, b) ==
    \/ {a, b} = {Zelda_TRANSFORM_GROUND, Zelda_TRANSFORM_AIR}
    \/ {a, b} = {Sheik_TRANSFORM_GROUND, Sheik_TRANSFORM_AIR}

\* a frame-post of an in-range slot has just been decoded
PostDecoded == pc = "event" /\ pc' = "callback" /\ pending'.kind = 56

Chain(kind) ==
    CASE kind = 54 -> <<"v1_0", "v1_3", "v1_5", "v2_0">>
      [] kind = 55 -> <<"v1_2", "v1_4">>
      [] kind = 56 -> <<"v0_2", "v2_0", "v2_1">>
      [] kind = 57 -> <<"v2_0">>

\* C13: in every record decoder and for every payload length, when an
\* extension is reported absent the next one in the chain is neither attempted
\* nor reported present; an extension's decoder is entered only after the
\* decoder of the one before it, and only an entered extension is reported.
C13_Monotonic ==
    decoded.kind # 0 =>
        LET ch == Chain(decoded.kind) IN
        /\ decoded.exts \subseteq decoded.tried
        /\ decoded.tried \subseteq {ch[k] : k \in 1..Len(ch)}
        /\ \A k \in 1..(Len(ch) - 1) :
              /\ ch[k + 1] \in decoded.tried => ch[k] \in decoded.tried
              /\ (decoded.err = "" /\ ch[k] \notin decoded.exts) =>
                    ch[k + 1] \notin decoded.exts /\ ch[k + 1] \notin decoded.tried

\* a game-start payload that ends after the v1_3 blocks: v1_5 and v2_0 absent
C13_Witness ==
    /\ decoded.kind = 54 /\ decoded.err = ""
    /\ decoded.size = 320 + 32 + 64
    /\ decoded.exts = {"v1_0", "v1_3"}
    /\ decoded.tried = {"v1_0", "v1_3"}

\* the byte width of the base fields and of each extension of a record kind
BaseWidth(kind) ==
    CASE kind = 54 -> 320 [] kind = 55 -> 58 [] kind = 56 -> 33 [] kind = 57 -> 1
ExtWidths(kind) ==
    CASE kind = 54 -> <<32, 64, 1, 1>>
      [] kind = 55 -> <<1, 4>>
      [] kind = 56 -> <<4, 14, 1>>
      [] kind = 57 -> <<1>>

\* the payload length that holds the base fields and the first k extensions
RECURSIVE Boundary(_, _)
Boundary(kind, k) ==
    IF k = 0 THEN BaseWidth(kind) ELSE Boundary(kind, k - 1) + ExtWidths(kind)[k]

\* the extensions a payload of `size` bytes holds in full
Fitting(kind, size) ==
    {Chain(kind)[k] : k \in {j \in 1..Len(Chain(kind)) : Boundary(kind, j) <= size}}

\* the payload ends inside an extension
EndsInside(kind, size) ==
    \E k \in 1..Len(Chain(kind)) : Boundary(kind, k - 1) < size /\ size < Boundary(kind, k)

\* C14 as stated: a payload at least as long as the base fields never fails
\* for lack of bytes; an extension is reported only if the payload holds it,
\* and a payload that ends anywhere, inside an extension included, ends the
\* chain there with no error.
C14_Original ==
    (decoded.kind # 0 /\ decoded.size >= BaseWidth(decoded.kind)) =>
        /\ decoded.err # "TruncatedInput"
        /\ decoded.err = "" => decoded.exts = Fitting(decoded.kind, decoded.size)

\* C14 (amended): for a payload at least as long as the base fields, an
\* extension is reported only if the payload holds it in full; a payload that
\* ends exactly where an extension would begin ends the chain there with no
\* error; a payload that ends inside an extension fails with the
\* error for lack of bytes; a payload that ends inside an extension is never
\* delivered: when the decoder reaches that extension its read fails with the
\* truncated-input error, which ends the parse with no callback for the
\* record.  (A frame record can fail on its facing or its port before any
\* extension is looked at.)
C14_Extensions ==
    (decoded.kind # 0 /\ decoded.size >= BaseWidth(decoded.kind)) =>
        /\ decoded.exts \subseteq Fitting(decoded.kind, decoded.size)
        /\ ~EndsInside(decoded.kind, decoded.size) =>
              /\ decoded.err # "TruncatedInput"
              /\ decoded.err = "" =>
                    /\ decoded.exts = Fitting(decoded.kind, decoded.size)
                    /\ decoded.tried = decoded.exts
        /\ EndsInside(decoded.kind, decoded.size) =>
              /\ decoded.err # ""
              /\ decoded.tried # {} => decoded.err = "TruncatedInput"
              /\ decoded.tried = {} => decoded.err \in {"InvalidDiscriminant", "Panic"}
              /\ pc = "done" /\ result = decoded.err
              /\ Len(SelectSeq(calls, IsEventCall)) < Len(SelectSeq(records, IsKnownRecord))

\* a frame-post payload that ends after its v0_2 extension is being delivered
C14_Witness ==
    /\ pc = "callback" /\ pending.kind = 56
    /\ decoded.kind = 56 /\ decoded.size = 33 + 4
    /\ decoded.err = "" /\ decoded.exts = {"v0_2"}

\* the sign of the facing float on the wire: its first bit, and whether all the
\* other bits are zero (a zero of either sign)
WireNegative(b) == b[1] >= 128
WireZero(b) == b[1] \in {0, 128} /\ b[2] = 0 /\ b[3] = 0 /\ b[4] = 0
WireNaN(b) == b[1] \in {127, 255} /\ b[2] >= 128 /\ <<b[2], b[3], b[4]>> # <<128, 0, 0>>

\* C15: a frame-pre or frame-post record whose facing float is negative is
\* decoded as facing LEFT and one whose facing is positive as facing RIGHT; a
\* facing of exactly zero fails with the invalid-discriminant error, which
\* ends the parse with no callback for the record.
C15_Direction ==
    (decoded.kind \in {55, 56} /\ decoded.facing # <<>>) =>
        LET b == decoded.facing IN
        /\ (WireNegative(b) /\ ~WireZero(b) /\ ~WireNaN(b)) =>
              /\ decoded.err # "InvalidDiscriminant"
              /\ decoded.err = "" => pc = "callback" /\ pending.dec.dir = LEFT
        /\ (~WireNegative(b) /\ ~WireZero(b) /\ ~WireNaN(b)) =>
              /\ decoded.err # "InvalidDiscriminant"
              /\ decoded.err = "" => pc = "callback" /\ pending.dec.dir = RIGHT
        /\ WireZero(b) =>
              /\ decoded.err = "InvalidDiscriminant"
              /\ pc = "done" /\ result = "InvalidDiscriminant"
              /\ Len(SelectSeq(calls, IsEventCall)) < Len(SelectSeq(records, IsKnownRecord))

\* a frame-post with facing 0.0 has ended the parse; nothing was delivered
C15_Witness ==
    /\ result = "InvalidDiscriminant"
    /\ decoded.kind = 56 /\ decoded.facing = F32_Zero
    /\ calls = <<>>

\* C16: every frame-pre and frame-post record is decoded with a port that is
\* a slot 0..NUM_PORTS-1 or ends in an error value: whatever the port byte,
\* the per-slot array is never indexed out of its bounds (the index panic that
\* ends the run is the result "Panic").
C16_PortInRange ==
    /\ result # "Panic"
    /\ (pc = "callback" /\ pending.kind \in {55, 56}) => pending.dec.port \in 0..(NUM_PORTS - 1)

\* the index of the closing marker that matches a map's opening marker, found
\* by a scan that counts the maps open at each marker (0: there is none); b is
\* what follows the opening marker, i the next marker, depth the nested maps
\* that are open
RECURSIVE ScanKey(_, _, _), ScanVal(_, _, _)
ScanKey(b, i, depth) ==
    IF i > Len(b) THEN 0
    ELSE IF b[i] = 125 THEN IF depth = 0 THEN i ELSE ScanKey(b, i + 1, depth - 1)
    ELSE IF b[i] = 85 /\ i + 1 <= Len(b) THEN ScanVal(b, i + 2 + b[i + 1], depth)
    ELSE 0
ScanVal(b, i, depth) ==
    IF i > Len(b) THEN 0
    ELSE IF b[i] = 83 /\ i + 2 <= Len(b) /\ b[i + 1] = 85
    THEN ScanKey(b, i + 3 + b[i + 2], depth)
    ELSE IF b[i] = 108 THEN ScanKey(b, i + 5, depth)
    ELSE IF b[i] = 123 THEN ScanKey(b, i + 1, depth + 1)
    ELSE 0

MatchingClose(b) == ScanKey(b, 1, 0)

\* {"x": {"y": 5}}, {"x": {}, "y": -1} and {"x": "}"} as objects
ObjX == ObjMap(<<120>> :> ObjMap(<<121>> :> ObjInt(5)))
ObjXY == ObjMap(<<120>> :> ObjMap(EmptyMap) @@ <<121>> :> ObjInt(-1))
ObjBrace == ObjMap(<<120>> :> ObjStr(<<125>>))

\* C17: parse_map, entered just after a map's opening marker, consumes the
\* input exactly through the closing marker that matches it (the closing
\* markers of nested maps are consumed with them) and returns the mapping:
\* the encoding of {"x": {"y": 5}} yields x -> (y -> Int(5)), and the next
\* unread byte is the one after the outer closing marker.
C17_ParseMap ==
    [][(pc = "metadata" /\ pc' = "metadata_callback") =>
          LET c == MatchingClose(tail) IN
          /\ c > 0 /\ tail[c] = 125
          /\ pos' = pos + c
          /\ tail' = SubSeq(tail, c + 1, Len(tail))
          /\ meta'.t = "Map"
          /\ Prefix(tail, 14) = MapX => meta' = ObjX /\ c = 14 /\ tail' = <<125>>
          /\ Prefix(tail, 14) = MapXY => meta' = ObjXY /\ c = 14
          /\ Prefix(tail, 8) = MapBrace => meta' = ObjBrace /\ c = 8
          /\ tail[1] = 125 => meta' = ObjMap(EmptyMap) /\ c = 1]_vars

\* the metadata {"x": {"y": 5}} has been read; the outer closing brace of the
\* container is the next unread byte
C17_Witness ==
    /\ pc = "metadata_callback"
    /\ meta = ObjX
    /\ tail = <<125>>
    /\ input = METADATA_PROLOGUE \o MapX \o <<125>>

\* the first marker of a map body that is neither a key, a closing marker nor
\* a supported value, by the same scan: "key" or "value" says where it stood,
\* "" that the scan met no such marker before the map closed or the input ended
RECURSIVE FaultKey(_, _, _), FaultVal(_, _, _)
FaultKey(b, i, depth) ==
    IF i > Len(b) THEN ""
    ELSE IF b[i] = 125 THEN IF depth = 0 THEN "" ELSE FaultKey(b, i + 1, depth - 1)
    ELSE IF b[i] = 85
    THEN IF i + 1 <= Len(b) THEN FaultVal(b, i + 2 + b[i + 1], depth) ELSE ""
    ELSE "key"
FaultVal(b, i, depth) ==
    IF i > Len(b) THEN ""
    ELSE IF b[i] = 83
    THEN IF i + 1 > Len(b) THEN ""
         ELSE IF b[i + 1] # 85 THEN "value"
         ELSE IF i + 2 <= Len(b) THEN FaultKey(b, i + 3 + b[i + 2], depth) ELSE ""
    ELSE IF b[i] = 108 THEN FaultKey(b, i + 5, depth)
    ELSE IF b[i] = 123 THEN FaultKey(b, i + 1, depth + 1)
    ELSE "value"

\* every text of the inputs is valid but the one-byte key 0xff
ValidTexts(b) == \A k \in 1..Len(b) : b[k] # 255

\* C18: in parse_map, where a key is expected, 0x7d ends the map, 0x55 starts
\* a key and any other marker fails with the malformed-metadata error; where
\* a value is expected, any marker other than a string (0x53 0x55), a 32-bit
\* integer (0x6c) or a map (0x7b) fails with the unsupported-value error.  On
\* such a failure the parse ends and the metadata callback is not made.
C18_Markers ==
    [][pc = "metadata" =>
          LET fault == IF ValidTexts(tail) THEN FaultKey(tail, 1, 0) ELSE "" IN
          /\ fault = "key" => result' = "MalformedMetadata"
          /\ fault = "value" => result' = "UnsupportedValueType"
          /\ (result' = "MalformedMetadata" /\ ValidTexts(tail)) => fault = "key"
          /\ (result' = "UnsupportedValueType" /\ ValidTexts(tail)) => fault = "value"
          /\ result' \in {"MalformedMetadata", "UnsupportedValueType"} =>
                /\ pc' = "done"
                /\ calls' = calls
                /\ ~MetadataCalled]_vars

\* a nested map with a string marker where its first key is expected
C18_Witness ==
    /\ result = "MalformedMetadata"
    /\ input = METADATA_PROLOGUE \o <<85, 1, 120, 123, 83, 125>> \o <<125>>
    /\ ~MetadataCalled

\* the positions in `calls` of the metadata callback
MetadataCalls == {i \in 1..Len(calls) : calls[i].name = "metadata"}

\* C19: the metadata callback is made at most once per parse, and only after
\* the event loop has ended, the byte-accounting check has passed and the 11
\* bytes that introduce the metadata map have matched, hence after every event
\* callback; parse returns success only if the byte that follows the metadata
\* map is the closing byte 0x7d.
C19_Metadata ==
    /\ Cardinality(MetadataCalls) <= 1
    /\ MetadataCalled =>
          /\ MetadataCalls = {Len(calls)}
          /\ pc \in {"closing", "done"}
          /\ (raw_len # 0 /\ bytes_read >= raw_len) \/ last_event = 57
          /\ raw_len # 0 => bytes_read = raw_len
          /\ EventCallNames = ExpectedCalls(records)
          /\ Len(input) >= 11 /\ SubSeq(input, 1, 11) = METADATA_PROLOGUE
    /\ result = "ok" =>
          /\ MetadataCalled
          /\ LET rest == SubSeq(input, 12, Len(input))
                 c == MatchingClose(rest)
             IN /\ c > 0 /\ Len(rest) > c /\ rest[c + 1] = 125
                /\ pos = bytes_read + RawStart + 11 + c + 1

\* a parse of several records with a declared length has returned success
C19_Witness ==
    /\ result = "ok"
    /\ raw_len # 0
    /\ Len(calls) >= 3
    /\ calls[Len(calls)].name = "metadata"

\* parse has returned an error (or was ended by a panic)
Failed(r) == r \notin {"running", "ok"}

\* C20: when the decoding of a record fails (the source ends inside the
\* record, the payload is shorter than the record's fields, the facing is
\* zero) or a framing check fails, parse returns that first error at once: no
\* callback is made for the failing record, no callback is made afterwards and
\* nothing more is read.
C20_FirstError ==
    [][/\ pc # "done"
       /\ decoded'.err # "" =>
             /\ result' = decoded'.err /\ pc' = "done"
             /\ calls' = calls
             /\ records' = Append(records, <<decoded'.kind, decoded'.size>>)
             /\ EventCallNames = ExpectedCalls(records)
       /\ (pc = "event"
           /\ \/ input' = <<>>
              \/ input'[1] \in DOMAIN sizes /\ pos' < pos + 1 + sizes[input'[1]]) =>
             /\ result' = "TruncatedInput" /\ pc' = "done"
             /\ records' = records /\ decoded' = decoded
       /\ (Failed(result') /\ result' # "SinkFailure") => calls' = calls
       /\ Failed(result') => pc' = "done"
       /\ pc' = "done" => result' # "running"]_vars

\* a frame-post with a zero facing has ended a parse that had delivered the
\* two records before it
C20_Witness ==
    /\ result = "InvalidDiscriminant"
    /\ decoded.kind = 56 /\ decoded.facing = F32_Zero
    /\ Len(records) = 3
    /\ Len(calls) = 2

\* the age at which the predictor answers the other character of the pair
ThresholdOf(state) == IF state.fam = ZELDA THEN 43 ELSE 36

IsTransform(state) ==
    state \in {Zelda_TRANSFORM_GROUND, Zelda_TRANSFORM_AIR,
               Sheik_TRANSFORM_GROUND, Sheik_TRANSFORM_AIR}

\* C21: a frame-post that reports one transform variant of Zelda or Sheik for
\* a slot whose previous state was the other variant of the same character
\* leaves the slot's age at min(threshold - 1, previous age + 1), threshold 43
\* for Zelda and 36 for Sheik; the age is then below the threshold and the
\* predictor answers the slot's own character; and a frame-pre decoded for a
\* slot in a transform state with an age below the threshold carries the
\* slot's own character.
C21_SwitchCap ==
    [][(pc = "event" /\ pc' = "callback") =>
          LET p == pending'.dec.port
              prev == last_char_states[p]
              new == last_char_states'[p]
          IN /\ (pending'.kind = 56 /\ TransformSwitch(prev.state, new.state)) =>
                   /\ new.age = Min(ThresholdOf(new.state) - 1, prev.age + 1)
                   /\ new.age < ThresholdOf(new.state)
                   /\ new.character = pending'.dec.character
                   /\ predict_character(p, last_char_states') = new.character
             /\ (pending'.kind = 55 /\ IsTransform(prev.state)
                 /\ prev.age < ThresholdOf(prev.state)) =>
                   /\ pending'.dec.character = prev.character
                   /\ new = prev]_vars

\* a frame-post switched slot 0 from Zelda's ground variant at or past the
\* threshold minus one to the air variant, and the frame-pre that followed
\* was decoded as Zelda
C21_Witness ==
    /\ pc = "callback" /\ pending.kind = 55
    /\ Len(records) = 2 /\ records[1][1] = 56
    /\ calls = <<[name |-> "frame_post", ok |-> TRUE]>>
    /\ pending.dec.port = 0 /\ pending.dec.character = ZELDA
    /\ last_char_states[0] = [character |-> ZELDA, state |-> Zelda_TRANSFORM_AIR, age |-> 42]

\* no frame-post record has been read so far
NoPostYet == \A i \in 1..Len(records) : records[i][1] # 56

\* C22: the per-slot array holds the default in every slot until a frame-post
\* record is read, and it changes only in the step that decodes a frame-post
\* successfully: that step replaces the slot of the record's port by the
\* reported character and state under a new age and leaves every other slot
\* as it was; no other step (game-start, game-end, frame-pre, a skipped
\* record, a failed record, a callback, the metadata stage) changes any slot.
C22_ArrayChanges ==
    /\ [](NoPostYet => last_char_states = DefaultStates)
    /\ [][/\ last_char_states' # last_char_states => PostDecoded
          /\ PostDecoded =>
                LET p == pending'.dec.port IN
                /\ p \in 0..(NUM_PORTS - 1)
                /\ last_char_states'[p].character = pending'.dec.character
                /\ last_char_states'[p].state = pending'.dec.state
                /\ last_char_states'[p] # last_char_states[p]
                /\ \A q \in 0..(NUM_PORTS - 1) :
                      q # p => last_char_states'[q] = last_char_states[q]]_vars

\* after a game-start and a frame-pre, a frame-post of port 3 has replaced
\* slot 3 and nothing else
C22_Witness ==
    /\ pc = "callback" /\ pending.kind = 56 /\ pending.dec.port = 3
    /\ Len(records) = 3 /\ records[1][1] = 54 /\ records[2][1] = 55
    /\ last_char_states =
          [DefaultStates EXCEPT ![3] =
              [character |-> ZELDA, state |-> Zelda_TRANSFORM_GROUND, age |-> 0]]

\* the width of a record's base fields and all its extensions
FullWidth(kind) == Boundary(kind, Len(Chain(kind)))

\* the last record read and the size the table gives its code
LastCode(rs) == rs[Len(rs)][1]

\* C23: a record whose code is in the size table and whose payload the source
\* holds takes exactly 1 + table[code] bytes from the source, whatever its
\* decoder does with the payload; when the iteration completes, exactly that
\* amount is added to the consumed-byte count (and nothing more is taken from
\* the source meanwhile); a payload longer than every field and extension of
\* its kind is no error: the decoder reports the whole chain or fails on its
\* facing or its port only.
C23_RecordBytes ==
    [][/\ records' # records =>
             /\ pc = "event"
             /\ records' = Append(records, <<input'[1], sizes[input'[1]]>>)
             /\ pos' = pos + 1 + sizes[input'[1]]
             /\ (decoded'.kind # 0 /\ decoded'.size > FullWidth(decoded'.kind)) =>
                   /\ decoded'.err \in {"", "InvalidDiscriminant", "Panic"}
                   /\ decoded'.err = "" =>
                         decoded'.exts = {Chain(decoded'.kind)[k] :
                                             k \in 1..Len(Chain(decoded'.kind))}
       /\ bytes_read' # bytes_read /\ pc \in {"event", "callback"} =>
             /\ bytes_read' = bytes_read + 1 + sizes[LastCode(records')]
             /\ pc = "callback" => pos' = pos /\ records' = records
             /\ pos' - RawStart = bytes_read']_vars

\* under the table {0x37: 100, 0x38: 120, 0x40: 10} a frame-pre record has
\* been delivered and a record of code 0x40 skipped: 101 + 11 bytes
C23_Witness ==
    /\ pc = "event"
    /\ records = <<<<55, 100>>, <<64, 10>>>>
    /\ calls = <<[name |-> "frame_pre", ok |-> TRUE]>>
    /\ bytes_read = Len(TableRecord(FrameTable)) + 101 + 11
    /\ pos = RawStart + bytes_read

\* the declared length has been read and is 0: an in-progress recording
InProgress == raw_len = 0 /\ pc \notin {"prologue", "raw_len", "payload_sizes"}

\* C24: with a declared length of 0 the event loop goes on to the next record
\* after every completed iteration, whatever the consumed count, unless the
\* record just processed is a GameEnd; the loop is left only after a GameEnd
\* (or by an error); the byte-accounting error is never raised; and after the
\* GameEnd no further record is read: the next read is that of the metadata
\* introducer.
C24_InProgress ==
    /\ [](InProgress =>
            /\ result # "ByteAccountingMismatch"
            /\ pc \in {"event", "callback"} => last_event # 57
            /\ (pc \in {"after_loop", "metadata", "metadata_callback", "closing"}
                \/ result = "ok") =>
                  /\ last_event = 57
                  /\ records # <<>> /\ LastCode(records) = 57)
    /\ [][raw_len' = 0 =>
            /\ (pc = "payload_sizes" /\ result' = "running") => pc' = "event"
            /\ (pc \in {"event", "callback"} /\ bytes_read' # bytes_read) =>
                  pc' = IF last_event' = 57 THEN "after_loop" ELSE "event"
            /\ pc = "after_loop" =>
                  /\ records' = records /\ bytes_read' = bytes_read
                  /\ input' \in TailInputs
                  /\ pc' = "metadata" \/ result' \in {"TruncatedInput", "MalformedEnvelope"}]_vars

\* an in-progress recording of four records, the last a GameEnd, has reached
\* the metadata stage
C24_Witness ==
    /\ raw_len = 0 /\ pc = "metadata"
    /\ Len(records) = 4 /\ records[4][1] = 57 /\ records[1][1] # 54
    /\ calls[Len(calls)] = [name |-> "game_end", ok |-> TRUE]
    /\ bytes_read = pos - RawStart - Len(METADATA_PROLOGUE)

\* the errors parse can return
ErrorValues ==
    {"TruncatedInput", "MalformedEnvelope", "UnknownEventSize", "InvalidDiscriminant",
     "SinkFailure", "ByteAccountingMismatch", "MalformedMetadata", "UnsupportedValueType",
     "InvalidText"}

\* the source ran out where the event loop wanted the next record
ExhaustedInLoop == pc = "done" /\ bytes_read > 0 /\ ~PastLoop /\ input = <<>>

NoGameEnd == \A i \in 1..Len(records) : records[i][1] # 57

\* C25: on a finite source with callbacks that return, parse is never stuck
\* before its end, and it ends with success or with an error it returns; a
\* stream of declared length 0 without a GameEnd record whose source runs out
\* ends with the truncated-input error.
C25_Terminates ==
    /\ pc # "done" => ENABLED NextLive
    /\ pc = "done" => result \in {"ok"} \cup ErrorValues
    /\ (raw_len = 0 /\ NoGameEnd /\ ExhaustedInLoop) => result = "TruncatedInput"

\* C25, the part that holds: parse always comes to an end (by a returned
\* value or by the panic of an out-of-range port); every iteration of the
\* event loop takes at least one byte from the source or ends the parse, every
\* key and every value of the metadata map takes at least one byte or fails,
\* and an exhausted source ends a stream of declared length 0 that had no
\* GameEnd with the truncated-input error.
C25_Halts ==
    /\ <>(pc = "done")
    /\ [](pc = "done" => result \in {"ok", "Panic"} \cup ErrorValues)
    /\ []((raw_len = 0 /\ NoGameEnd /\ ExhaustedInLoop) => result = "TruncatedInput")
    /\ []((pc = "metadata") =>
             \A i \in 1..(Len(tail) + 1) :
                /\ parse_key(tail, i).err # "" \/ parse_key(tail, i).next > i
                /\ parse_val(tail, i).err # "" \/ parse_val(tail, i).next > i)
    /\ [][(pc = "event" /\ pc' # "done") => pos' > pos]_vars

\* a stream of declared length 0 whose source ran out after two records,
\* neither a GameEnd
C25_Witness ==
    /\ raw_len = 0 /\ NoGameEnd /\ ExhaustedInLoop
    /\ Len(records) = 2 /\ Len(calls) >= 1
    /\ result = "TruncatedInput"

====
